---- MODULE Spec2Model ----
(***************************************************************************)
(* Model of sysd2v.py: SystemdServiceConverter, which loads a systemd      *)
(* unit file and prints an LSB SysV init script, and of the control flow   *)
(* of the script it prints.                                                *)
(*                                                                         *)
(* Strings are sequences of one-character strings, so that Python's        *)
(* strip/split/replace/slicing are computed as the code computes them.     *)
(* A unit file is a sequence of lines; a line is a section header          *)
(* [kind |-> "section", name, value |-> <<>>] or a directive               *)
(* [kind |-> "option", name, value] standing for the text "name=value".    *)
(* A printed line is [t |-> fixed text of the print call, a |-> the        *)
(* interpolated strings in order].                                         *)
(***************************************************************************)
EXTENDS Integers, Sequences, FiniteSets, TLC

\* ------------------------------------------------------------------------
\* Bounds
\* ------------------------------------------------------------------------
\* number of parse_service_file calls made on one converter instance
MaxLoads == 2
\* number of " ; "-separated commands in one directive of a unit file
MaxCmds == 3
\* number of Environment= lines in one unit file
MaxEnvLines == 2

\* commands of one ExecStartPre in the units whose scripts are run
MaxPre == 2

\* service files under the search directories
MaxFiles == 2

\* ------------------------------------------------------------------------
\* Python values and string methods
\* ------------------------------------------------------------------------
\* Python's None; no string has a multi-character element
None == <<"<None>">>

\* truth value of an optional string: None and "" are false
Truthy(x) == x # None /\ x # <<>>

IsSpace(c) == c = " "

RECURSIVE LStrip(_)
LStrip(s) == IF s = <<>> THEN s
             ELSE IF IsSpace(Head(s)) THEN LStrip(Tail(s)) ELSE s

RECURSIVE RStrip(_)
RStrip(s) == IF s = <<>> THEN s
             ELSE IF IsSpace(s[Len(s)]) THEN RStrip(SubSeq(s, 1, Len(s) - 1)) ELSE s

\* str.strip()
Strip(s) == RStrip(LStrip(s))

\* str.startswith(p)
StartsWith(s, p) == Len(s) >= Len(p) /\ SubSeq(s, 1, Len(p)) = p

\* s[n:]
From(s, n) == SubSeq(s, n + 1, Len(s))

\* p in s
RECURSIVE Contains(_, _)
Contains(s, p) == IF Len(s) < Len(p) THEN FALSE
                  ELSE StartsWith(s, p) \/ Contains(Tail(s), p)

\* str.replace(old, new), old non-empty: non-overlapping, left to right
RECURSIVE Replace(_, _, _)
Replace(s, old, new) ==
    IF Len(s) < Len(old) THEN s
    ELSE IF StartsWith(s, old) THEN new \o Replace(From(s, Len(old)), old, new)
    ELSE <<Head(s)>> \o Replace(Tail(s), old, new)

\* str.split(sep): the pieces between the occurrences of sep, empty ones kept
RECURSIVE SplitAcc(_, _, _)
SplitAcc(s, sep, cur) ==
    IF Len(s) < Len(sep) THEN <<cur \o s>>
    ELSE IF StartsWith(s, sep) THEN <<cur>> \o SplitAcc(From(s, Len(sep)), sep, <<>>)
    ELSE SplitAcc(Tail(s), sep, Append(cur, Head(s)))

Split(s, sep) == SplitAcc(s, sep, <<>>)

\* str.split(): the maximal runs of non-whitespace
RECURSIVE WordsAcc(_, _)
WordsAcc(s, cur) ==
    IF s = <<>> THEN (IF cur = <<>> THEN <<>> ELSE <<cur>>)
    ELSE IF IsSpace(Head(s))
         THEN (IF cur = <<>> THEN <<>> ELSE <<cur>>) \o WordsAcc(Tail(s), <<>>)
         ELSE WordsAcc(Tail(s), Append(cur, Head(s)))

Words(s) == WordsAcc(s, <<>>)

\* os.path.basename: what follows the last "/"
RECURSIVE Basename(_)
Basename(p) == IF Contains(p, <<"/">>) THEN Basename(Tail(p)) ELSE p

\* option names as configparser stores and looks them up (optionxform = lower)
Lower(k) ==
    CASE k = "ExecStart" -> "execstart"
      [] k = "ExecStartPre" -> "execstartpre"
      [] k = "ExecStartPost" -> "execstartpost"
      [] k = "ExecStop" -> "execstop"
      [] k = "ExecStopPost" -> "execstoppost"
      [] k = "ExecReload" -> "execreload"
      [] k = "Type" -> "type"
      [] k = "PIDFile" -> "pidfile"
      [] k = "Environment" -> "environment"
      [] k = "ENVIRONMENT" -> "environment"
      [] k = "EnvironmentFile" -> "environmentfile"
      [] k = "WorkingDirectory" -> "workingdirectory"
      [] k = "User" -> "user"
      [] k = "Group" -> "group"
      [] k = "TimeoutSec" -> "timeoutsec"
      [] k = "TimeoutStartSec" -> "timeoutstartsec"
      [] k = "TimeoutStopSec" -> "timeoutstopsec"
      [] k = "Restart" -> "restart"
      [] k = "RestartSec" -> "restartsec"
      [] k = "OOMScoreAdjust" -> "oomscoreadjust"
      [] k = "KillSignal" -> "killsignal"
      [] k = "Description" -> "description"
      [] k = "Documentation" -> "documentation"
      [] k = "After" -> "after"
      [] k = "Requires" -> "requires"
      [] k = "Wants" -> "wants"
      [] k = "ConditionPathExists" -> "conditionpathexists"
      [] k = "ConditionPathExistsGlob" -> "conditionpathexistsglob"
      [] k = "ConditionFileNotEmpty" -> "conditionfilenotempty"
      [] k = "ConditionDirectoryNotEmpty" -> "conditiondirectorynotempty"
      [] k = "WantedBy" -> "wantedby"
      [] OTHER -> k

\* str.lower() on the symbols a Type value is written with
LowerChar(c) ==
    CASE c = "OneShot" -> "oneshot"
      [] c = "Forking" -> "forking"
      [] c = "Simple" -> "simple"
      [] OTHER -> c

LowerStr(s) == [i \in 1..Len(s) |-> LowerChar(s[i])]

\* ------------------------------------------------------------------------
\* Unit file lines
\* ------------------------------------------------------------------------
SectionLine(n) == [kind |-> "section", name |-> n, value |-> <<>>]
OptionLine(k, v) == [kind |-> "option", name |-> k, value |-> v]

\* ------------------------------------------------------------------------
\* preprocess_service_file
\* ------------------------------------------------------------------------
\* The loop over the lines.  cur is current_section ("" for None), data is
\* section_data, out is processed_lines.  A repeated key's value is added to
\* section_data and its line is dropped; processed_lines is what is returned.
RECURSIVE PreprocessLoop(_, _, _, _)
PreprocessLoop(lines, cur, data, out) ==
    IF lines = <<>> THEN [lines |-> out, data |-> data]
    ELSE LET line == Head(lines)
             rest == Tail(lines)
         IN  IF line.kind = "section"
             THEN PreprocessLoop(rest, line.name,
                                 [s \in DOMAIN data \cup {line.name} |->
                                    IF s = line.name THEN [k \in {} |-> <<>>] ELSE data[s]],
                                 Append(out, line))
             ELSE IF cur # ""
             THEN LET key == Lower(line.name)
                      sec == data[cur]
                  IN  IF key \in DOMAIN sec
                      THEN PreprocessLoop(rest, cur,
                               [data EXCEPT ![cur] =
                                   [sec EXCEPT ![key] = @ \o <<" ">> \o Strip(line.value)]],
                               out)
                      ELSE PreprocessLoop(rest, cur,
                               [data EXCEPT ![cur] =
                                   [k \in DOMAIN sec \cup {key} |->
                                      IF k = key THEN Strip(line.value) ELSE sec[k]]],
                               Append(out, line))
             ELSE PreprocessLoop(rest, cur, data, Append(out, line))

preprocess_service_file(lines) ==
    PreprocessLoop(lines, "", [s \in {} |-> <<>>], <<>>).lines

\* ------------------------------------------------------------------------
\* The converter object
\* ------------------------------------------------------------------------
\* configparser document: section name -> (lowercase option -> value)
EmptyDoc == [s \in {} |-> <<>>]

\* SystemdServiceConverter.__init__
NewConverter ==
    [config |-> None, service_name |-> <<>>, template_service |-> FALSE,
     instance_name |-> <<>>, prefix_name |-> <<>>]

\* the "%x" tokens
Pct(c) == <<"%", c>>

\* replace_systemd_specifiers: the replacements dict in insertion order, each
\* applied with str.replace to the result of the one before
SpecifierTable(self) ==
    << <<Pct("i"), self.instance_name>>,
       <<Pct("I"), self.instance_name>>,
       <<Pct("p"), self.prefix_name>>,
       <<Pct("P"), self.prefix_name>>,
       <<Pct("f"), <<"/">> \o self.instance_name>>,
       <<Pct("u"), self.service_name>>,
       <<Pct("U"), self.service_name>> >>

RECURSIVE ReplaceAll(_, _)
ReplaceAll(text, table) ==
    IF table = <<>> THEN text
    ELSE LET specifier == Head(table)[1]
             replacement == Head(table)[2]
         IN  ReplaceAll(IF Contains(text, specifier)
                        THEN Replace(text, specifier, replacement)
                        ELSE text,
                        Tail(table))

replace_systemd_specifiers(self, text) ==
    IF ~self.template_service THEN text
    ELSE ReplaceAll(text, SpecifierTable(self))

\* the specifiers are replaced in the whole preprocessed text; section and
\* option names of the model contain no "%", so only the values change
ReplaceInLines(self, lines) ==
    [i \in 1..Len(lines) |->
        [lines[i] EXCEPT !.value = replace_systemd_specifiers(self, @)]]

\* ConfigParser(interpolation=None).read_file: a section seen twice, an option
\* before any section or an option seen twice in a section raise; the
\* document then keeps what was read up to the error
RECURSIVE ReadLoop(_, _, _)
ReadLoop(lines, cur, doc) ==
    IF lines = <<>> THEN [ok |-> TRUE, doc |-> doc]
    ELSE LET line == Head(lines)
         IN  IF line.kind = "section"
             THEN IF line.name \in DOMAIN doc
                  THEN [ok |-> FALSE, doc |-> doc]
                  ELSE ReadLoop(Tail(lines), line.name,
                           [s \in DOMAIN doc \cup {line.name} |->
                              IF s = line.name THEN [k \in {} |-> <<>>] ELSE doc[s]])
             ELSE IF cur = "" THEN [ok |-> FALSE, doc |-> doc]
             ELSE LET key == Lower(line.name)
                      sec == doc[cur]
                  IN  IF key \in DOMAIN sec
                      THEN [ok |-> FALSE, doc |-> doc]
                      ELSE ReadLoop(Tail(lines), cur,
                               [doc EXCEPT ![cur] =
                                   [k \in DOMAIN sec \cup {key} |->
                                      IF k = key THEN Strip(line.value) ELSE sec[k]]])

read_file(lines) == ReadLoop(lines, "", EmptyDoc)

DotService == <<".", "s", "e", "r", "v", "i", "c", "e">>

\* parse_service_file, first part: service name and template context.
\* raised is TRUE when "Template service requires instance name" is raised;
\* the fields assigned before the raise keep their new values.
TemplateStep(self, filepath) ==
    LET name == Replace(Basename(filepath), DotService, <<>>)
        s1 == [self EXCEPT !.service_name = name]
    IN  IF Contains(name, <<"@">>)
        THEN LET parts == Split(name, <<"@">>)
                 s2 == [s1 EXCEPT !.template_service = TRUE, !.prefix_name = parts[1]]
             IN  IF Len(parts) > 1 /\ parts[2] # <<>>
                 THEN [self |-> [s2 EXCEPT !.instance_name = parts[2]], raised |-> FALSE]
                 ELSE [self |-> s2, raised |-> TRUE]
        ELSE [self |-> s1, raised |-> FALSE]

\* parse_service_file without the has_section("Service") test of line 189
parse_service_file_no_section_test(self, f) ==
    LET t == TemplateStep(self, f.path)
    IN  IF t.raised THEN [self |-> t.self, ok |-> FALSE]
        ELSE LET r == read_file(ReplaceInLines(t.self, preprocess_service_file(f.text)))
             IN  [self |-> [t.self EXCEPT !.config = r.doc], ok |-> r.ok]

\* parse_service_file: the converter after the call and whether it returned
\* normally
parse_service_file(self, f) ==
    LET t == TemplateStep(self, f.path)
    IN  IF t.raised THEN [self |-> t.self, ok |-> FALSE]
        ELSE LET processed == preprocess_service_file(f.text)
                 content == ReplaceInLines(t.self, processed)
                 r == read_file(content)
                 s3 == [t.self EXCEPT !.config = r.doc]
             IN  IF ~r.ok THEN [self |-> s3, ok |-> FALSE]
                 ELSE IF "Service" \notin DOMAIN r.doc THEN [self |-> s3, ok |-> FALSE]
                 ELSE [self |-> s3, ok |-> TRUE]

\* get_config_option
get_config_option(self, section, option, fallback) ==
    IF section \in DOMAIN self.config /\ Lower(option) \in DOMAIN self.config[section]
    THEN self.config[section][Lower(option)]
    ELSE fallback

Opt(self, section, option) == get_config_option(self, section, option, None)

\* ------------------------------------------------------------------------
\* Printed lines
\* ------------------------------------------------------------------------
\* print of a fixed text
L(t) == [t |-> t, a |-> <<>>]
\* print of an f-string: t is the text with {} for each interpolated value
LA(t, a) == [t |-> t, a |-> a]

\* what a generator returns: the lines it printed and whether it returned
\* (ok) or raised after printing them
Done(lines) == [lines |-> lines, ok |-> TRUE]
Raised(lines) == [lines |-> lines, ok |-> FALSE]

\* r1 ; r2 -- r2 runs only if r1 returned
Then(r1, r2) == IF r1.ok THEN [lines |-> r1.lines \o r2.lines, ok |-> r2.ok] ELSE r1

\* " ".join(seq)
RECURSIVE Join(_)
Join(seq) == IF seq = <<>> THEN <<>>
             ELSE IF Len(seq) = 1 THEN seq[1]
             ELSE seq[1] \o <<" ">> \o Join(Tail(seq))

\* the concatenation of f(x) for x in seq
RECURSIVE FlatMap(_, _)
FlatMap(f(_), seq) == IF seq = <<>> THEN <<>> ELSE f(Head(seq)) \o FlatMap(f, Tail(seq))

\* ------------------------------------------------------------------------
\* get_executable_path, get_full_command
\* ------------------------------------------------------------------------
\* exec_start.split()[0] raises IndexError when nothing but whitespace is
\* left after the "-"
get_executable_path(self) ==
    LET exec_start == get_config_option(self, "Service", "ExecStart", <<>>)
    IN  IF exec_start = <<>> THEN [ok |-> TRUE, val |-> <<>>]
        ELSE LET e == IF StartsWith(exec_start, <<"-">>) THEN From(exec_start, 1) ELSE exec_start
                 w == Words(e)
             IN  IF w = <<>> THEN [ok |-> FALSE, val |-> <<>>]
                 ELSE [ok |-> TRUE, val |-> w[1]]

get_full_command(self) ==
    LET exec_start == get_config_option(self, "Service", "ExecStart", <<>>)
    IN  IF exec_start = <<>> THEN <<>>
        ELSE IF StartsWith(exec_start, <<"-">>) THEN From(exec_start, 1) ELSE exec_start

\* ------------------------------------------------------------------------
\* LSB header
\* ------------------------------------------------------------------------
Facility(n) == <<"$", n>>

\* DepOf with a token that is not in the table passed on as it is
DepOf_propagates_unknown(dep) ==
    CASE dep = <<"network.target">> -> <<Facility("network")>>
      [] dep = <<"syslog.target">> -> <<Facility("syslog")>>
      [] dep = <<"remote-fs.target">> -> <<Facility("remote_fs")>>
      [] dep = <<"time-sync.target">> -> <<Facility("time")>>
      [] dep = <<"rpcbind.service">> -> <<Facility("portmap")>>
      [] dep = <<"nss-lookup.target">> -> <<Facility("named")>>
      [] OTHER -> <<dep>>

DepOf(dep) ==
    CASE dep = <<"network.target">> -> <<Facility("network")>>
      [] dep = <<"syslog.target">> -> <<Facility("syslog")>>
      [] dep = <<"remote-fs.target">> -> <<Facility("remote_fs")>>
      [] dep = <<"time-sync.target">> -> <<Facility("time")>>
      [] dep = <<"rpcbind.service">> -> <<Facility("portmap")>>
      [] dep = <<"nss-lookup.target">> -> <<Facility("named")>>
      [] OTHER -> <<>>

WantOf(want) ==
    CASE want = <<"network.target">> -> <<Facility("network")>>
      [] want = <<"remote-fs.target">> -> <<Facility("remote_fs")>>
      [] OTHER -> <<>>

Range(seq) == {seq[i] : i \in 1..Len(seq)}

\* _generate_dependencies: the list required_deps (get_executable_path has
\* returned)
required_deps(self) ==
    LET exec_path == get_executable_path(self).val
        base == <<Facility("syslog"), Facility("local_fs")>>
        usr == IF exec_path # <<>> /\ StartsWith(exec_path, <<"/usr">>)
               THEN <<Facility("remote_fs")>> ELSE <<>>
        after == Words(get_config_option(self, "Unit", "After", <<>>))
        requires == Words(get_config_option(self, "Unit", "Requires", <<>>))
    IN  base \o usr \o FlatMap(DepOf, after) \o FlatMap(DepOf, requires)

should_deps(self) == FlatMap(WantOf, Words(get_config_option(self, "Unit", "Wants", <<>>)))

\* the orders in which iterating set(list) can yield its elements
Orders(list) ==
    LET S == Range(list)
    IN  {f \in [1..Cardinality(S) -> S] : \A x \in S : \E i \in 1..Cardinality(S) : f[i] = x}

\* reqOrder and shouldOrder are the iteration orders of the two sets
_generate_dependencies(self, reqOrder, shouldOrder) ==
    IF ~get_executable_path(self).ok THEN Raised(<<>>)
    ELSE Done(<< LA("# Required-Start:\t{}", <<Join(reqOrder)>>),
                 LA("# Required-Stop:\t{}", <<Join(reqOrder)>>) >>
              \o (IF should_deps(self) # <<>>
                  THEN <<LA("# Should-Start:\t{}", <<Join(shouldOrder)>>)>>
                  ELSE <<>>))

\* _generate_runlevels with rescue.target treated as basic.target
_generate_runlevels_rescue_as_basic(self) ==
    LET wanted_by == get_config_option(self, "Install", "WantedBy", <<>>)
    IN  IF wanted_by \in {<<"basic.target">>, <<"rescue.target">>}
        THEN <<L("# Default-Start:\t1"), L("# Default-Stop:\t")>>
        ELSE <<L("# Default-Start:\t2 3 4 5"), L("# Default-Stop:\t\t0 1 6")>>

_generate_runlevels(self) ==
    LET wanted_by == get_config_option(self, "Install", "WantedBy", <<>>)
    IN  IF wanted_by = <<"multi-user.target">>
        THEN <<L("# Default-Start:\t2 3 4 5"), L("# Default-Stop:\t\t0 1 6")>>
        ELSE IF wanted_by = <<"graphical.target">>
        THEN <<L("# Default-Start:\t2 3 4 5"), L("# Default-Stop:\t\t0 1 6")>>
        ELSE IF wanted_by = <<"basic.target">>
        THEN <<L("# Default-Start:\t1"), L("# Default-Stop:\t")>>
        ELSE IF wanted_by = <<"rescue.target">>
        THEN <<L("# Default-Start:\t1"), L("# Default-Stop:\t0 2 3 4 5 6")>>
        ELSE <<L("# Default-Start:\t2 3 4 5"), L("# Default-Stop:\t\t0 1 6")>>

generate_lsb_header(self, reqOrder, shouldOrder) ==
    LET description == get_config_option(self, "Unit", "Description", self.service_name)
        documentation == Opt(self, "Unit", "Documentation")
    IN  Then(Done(<<L("### BEGIN INIT INFO"), LA("# Provides: {}", <<self.service_name>>)>>),
        Then(_generate_dependencies(self, reqOrder, shouldOrder),
             Done(_generate_runlevels(self)
                  \o <<LA("# Short-Description: {}", <<description>>)>>
                  \o (IF Truthy(documentation)
                      THEN <<LA("# Documentation: {}", <<documentation>>)>> ELSE <<>>)
                  \o <<L("### END INIT INFO")>>)))

\* ------------------------------------------------------------------------
\* generate_script_variables
\* ------------------------------------------------------------------------
ExportLine(env_var) ==
    IF Contains(env_var, <<"=">>) THEN <<LA("export {}", <<env_var>>)>> ELSE <<>>

generate_script_variables(self) ==
    LET env_file == Opt(self, "Service", "EnvironmentFile")
        env_path == IF StartsWith(env_file, <<"-">>) THEN From(env_file, 1) ELSE env_file
        pidfile == Opt(self, "Service", "PIDFile")
        description == get_config_option(self, "Unit", "Description", self.service_name)
        documentation == Opt(self, "Unit", "Documentation")
        environment == Opt(self, "Service", "Environment")
        working_dir == Opt(self, "Service", "WorkingDirectory")
        user == Opt(self, "Service", "User")
        group == Opt(self, "Service", "Group")
        timeout_sec == Opt(self, "Service", "TimeoutSec")
        timeout_start == Opt(self, "Service", "TimeoutStartSec")
        timeout_stop == Opt(self, "Service", "TimeoutStopSec")
        restart == Opt(self, "Service", "Restart")
        restart_sec == get_config_option(self, "Service", "RestartSec", <<"1">>)
        oom_score_adjust == Opt(self, "Service", "OOMScoreAdjust")
    IN  <<L(". /lib/lsb/init-functions"), LA("prog={}", <<self.service_name>>)>>
        \o (IF Truthy(env_file)
            THEN <<LA("if test -f {}; then", <<env_path>>), LA("\t. {}", <<env_path>>), L("fi")>>
            ELSE <<>>)
        \o (IF Truthy(pidfile) THEN <<LA("PIDFILE={}", <<pidfile>>)>>
            ELSE <<L("PIDFILE=/var/run/$prog.pid")>>)
        \o <<LA("DESC=\"{}\"", <<description>>)>>
        \o (IF Truthy(documentation)
            THEN <<LA("# Service documentation: {}", <<documentation>>)>> ELSE <<>>)
        \o (IF Truthy(environment) THEN FlatMap(ExportLine, Words(environment)) ELSE <<>>)
        \o (IF Truthy(working_dir) THEN <<LA("WORKDIR={}", <<working_dir>>)>> ELSE <<>>)
        \o (IF Truthy(user) THEN <<LA("USER={}", <<user>>)>> ELSE <<>>)
        \o (IF Truthy(group) THEN <<LA("GROUP={}", <<group>>)>> ELSE <<>>)
        \o (IF Truthy(timeout_start) /\ timeout_start # <<"0">>
            THEN <<LA("STARTTIMEOUT={}", <<timeout_start>>)>>
            ELSE IF Truthy(timeout_sec) /\ timeout_sec # <<"0">>
            THEN <<LA("STARTTIMEOUT={}", <<timeout_sec>>)>>
            ELSE <<>>)
        \o (IF Truthy(timeout_stop) /\ timeout_stop # <<"0">>
            THEN <<LA("STOPTIMEOUT={}", <<timeout_stop>>)>>
            ELSE IF Truthy(timeout_sec) /\ timeout_sec # <<"0">>
            THEN <<LA("STOPTIMEOUT={}", <<timeout_sec>>)>>
            ELSE <<>>)
        \o (IF Truthy(restart) /\ restart # <<"no">>
            THEN <<LA("RESTART_MODE={}", <<restart>>), LA("RESTART_SEC={}", <<restart_sec>>)>>
            ELSE <<>>)
        \o (IF Truthy(oom_score_adjust)
            THEN <<LA("OOM_SCORE_ADJUST={}", <<oom_score_adjust>>)>> ELSE <<>>)

\* ------------------------------------------------------------------------
\* _add_success_check, _add_timeout_check
\* ------------------------------------------------------------------------
_add_success_check(action) ==
    <<L("\tif [ $? -ne 0 ]; then"), L("\t\tlog_end_msg 1"), L("\t\texit 1"), L("\tfi")>>
    \o (IF action # "startpre"
        THEN <<L("\tif [ $? -eq 0 ]; then"), L("\t\tlog_end_msg 0"), L("\tfi")>>
        ELSE <<>>)

\* the name timeout_var that lines 681 and 709 read is bound nowhere in the
\* file: not a local, not a global, not a builtin
TimeoutVarBound == FALSE

\* lines 682-712, what is printed after the TIMEOUT= line
TimeoutLoop(action, exec_path) ==
    <<LA("\tTEMPPID=$(pidofproc {})", <<exec_path>>), L("\twhile [ $TIMEOUT -gt 0 ]; do")>>
    \o (IF action = "start"
        THEN <<L("\t\tif /bin/kill -0 $TEMPPID 2>/dev/null; then"),
               L("\t\t\tlog_end_msg 0"), L("\t\t\tbreak"), L("\t\tfi")>>
        ELSE IF action = "stop"
        THEN <<L("\t\tif ! /bin/kill -0 $TEMPPID 2>/dev/null; then"),
               L("\t\t\tlog_end_msg 0"), L("\t\t\tbreak"), L("\t\tfi")>>
        ELSE <<>>)
    \o <<L("\t\tsleep 1"), L("\t\tTIMEOUT=$((TIMEOUT - 1))"), L("\tdone"), L(""),
         L("\tif [ $TIMEOUT -eq 0 ]; then")>>
    \o (IF action = "stop"
        THEN <<L("\t\tkill -15 $TEMPPID 2>/dev/null"), L("\t\tsleep 2"),
               L("\t\tkill -9 $TEMPPID 2>/dev/null"), L("\t\techo \"$prog killed\"")>>
        ELSE <<L("\t\tlog_end_msg 1"),
               LA("\t\techo \"Timeout error occurred trying to {} $prog (timeout: ${} seconds)\"",
                  <<<<action>>, <<"timeout_var">>>>),
               L("\t\texit 1")>>)
    \o <<L("\tfi")>>

_add_timeout_check(self, action) ==
    LET timeout_val == Opt(self, "Service", "TimeoutSec")
    IN  IF timeout_val = <<"0">> \/ ~Truthy(timeout_val)
        THEN Done(_add_success_check(action))
        ELSE LET exec_path == get_executable_path(self)
             IN  IF ~exec_path.ok THEN Raised(<<>>)
                 ELSE IF ~TimeoutVarBound THEN Raised(<<>>)
                 ELSE Done(<<LA("\tTIMEOUT=${}", <<<<"timeout_var">>>>)>>
                           \o TimeoutLoop(action, exec_path.val))

\* ------------------------------------------------------------------------
\* generate_start_function
\* ------------------------------------------------------------------------
\* the separator of the commands of one directive
Semi == <<" ", ";", " ">>

SkipLines == <<L("\t\tlog_end_msg 1"), L("\t\texit 0"), L("\tfi")>>

\* lines 401-428
StartConditions(self) ==
    LET condition_path == Opt(self, "Unit", "ConditionPathExists")
        condition_path_exists_glob == Opt(self, "Unit", "ConditionPathExistsGlob")
        condition_file_not_empty == Opt(self, "Unit", "ConditionFileNotEmpty")
        condition_directory_not_empty == Opt(self, "Unit", "ConditionDirectoryNotEmpty")
    IN  (IF Truthy(condition_path)
         THEN <<LA("\tif [ ! -s {} ]; then", <<condition_path>>)>> \o SkipLines ELSE <<>>)
        \o (IF Truthy(condition_path_exists_glob)
            THEN <<LA("\tif ! ls {} 1> /dev/null 2>&1; then", <<condition_path_exists_glob>>)>>
                 \o SkipLines
            ELSE <<>>)
        \o (IF Truthy(condition_file_not_empty)
            THEN <<LA("\tif [ ! -s {} ]; then", <<condition_file_not_empty>>)>> \o SkipLines
            ELSE <<>>)
        \o (IF Truthy(condition_directory_not_empty)
            THEN <<LA("\tif [ ! -d {} ] || [ -z \"$(ls -A {})\" ]; then",
                      <<condition_directory_not_empty, condition_directory_not_empty>>)>>
                 \o SkipLines
            ELSE <<>>)

\* lines 430-436
StartWorkdir(self) ==
    LET working_dir == Opt(self, "Service", "WorkingDirectory")
    IN  IF Truthy(working_dir)
        THEN <<LA("\tcd {} || {", <<working_dir>>), L("\t\tlog_end_msg 1"),
               L("\t\texit 1"), L("\t}")>>
        ELSE <<>>

\* StartDaemonCmd without the success check after a required command
StartDaemonCmd_no_check(raw, action) ==
    LET cmd == Strip(raw)
        optional == StartsWith(cmd, <<"-">>)
    IN  <<LA("\tstart_daemon {}", <<IF optional THEN From(cmd, 1) ELSE cmd>>)>>

\* one command of ExecStartPre / ExecStartPost
StartDaemonCmd(raw, action) ==
    LET cmd == Strip(raw)
        optional == StartsWith(cmd, <<"-">>)
    IN  <<LA("\tstart_daemon {}", <<IF optional THEN From(cmd, 1) ELSE cmd>>)>>
        \o (IF ~optional THEN _add_success_check(action) ELSE <<>>)

\* lines 438-449
StartPre(self) ==
    LET start_pre == Opt(self, "Service", "ExecStartPre")
        One(raw) == StartDaemonCmd(raw, "startpre")
    IN  IF Truthy(start_pre) THEN FlatMap(One, Split(start_pre, Semi)) ELSE <<>>

\* one command of a directive whose commands are printed as they are
PlainCmd(raw) ==
    LET cmd == Strip(raw)
    IN  <<LA("\t{}", <<IF StartsWith(cmd, <<"-">>) THEN From(cmd, 1) ELSE cmd>>)>>

\* one command of ExecStart followed by its own success check
CheckedCmd(raw) == PlainCmd(raw) \o _add_success_check("start")

\* StartOneshot with the success check inside the loop over the commands
StartOneshot_check_each(self, exec_start) ==
    Done(FlatMap(CheckedCmd, Split(exec_start, Semi)))

\* lines 456-463
StartOneshot(self, exec_start) ==
    Done(FlatMap(PlainCmd, Split(exec_start, Semi)) \o _add_success_check("start"))

\* lines 465-474
StartForking(self, exec_start) ==
    LET exec_path == get_executable_path(self)
        full_cmd == get_full_command(self)
    IN  IF ~exec_path.ok THEN Raised(<<>>)
        ELSE Then(Done(<<IF Truthy(Opt(self, "Service", "PIDFile"))
                         THEN LA("\tstart_daemon -p $PIDFILE {}", <<full_cmd>>)
                         ELSE LA("\tstart_daemon {}", <<full_cmd>>)>>),
                  _add_timeout_check(self, "start"))

\* lines 476-496
StartSimple(self, exec_start) ==
    LET exec_path == get_executable_path(self)
        full_cmd == get_full_command(self)
        has_pidfile == Truthy(Opt(self, "Service", "PIDFile"))
    IN  IF ~exec_path.ok THEN Raised(<<>>)
        ELSE Then(Done(<<
               IF full_cmd # exec_path.val
               THEN LET args == Strip(From(full_cmd, Len(exec_path.val)))
                    IN  IF has_pidfile
                        THEN LA("\tstart-stop-daemon --start --background --pidfile $PIDFILE --startas {} -- {}",
                                <<exec_path.val, args>>)
                        ELSE LA("\tstart-stop-daemon --start --background --make-pidfile --pidfile $PIDFILE --startas {} -- {}",
                                <<exec_path.val, args>>)
               ELSE IF has_pidfile
                    THEN LA("\tstart-stop-daemon --start --background --pidfile $PIDFILE --exec {}",
                            <<exec_path.val>>)
                    ELSE LA("\tstart-stop-daemon --start --background --make-pidfile --pidfile $PIDFILE --exec {}",
                            <<exec_path.val>>)>>),
             _add_timeout_check(self, "start"))

\* lines 451-496
StartExec(self) ==
    LET exec_start == Opt(self, "Service", "ExecStart")
        service_type == LowerStr(get_config_option(self, "Service", "Type", <<"simple">>))
    IN  IF ~Truthy(exec_start) THEN Done(<<>>)
        ELSE IF service_type = <<"oneshot">> THEN StartOneshot(self, exec_start)
        ELSE IF service_type = <<"forking">> THEN StartForking(self, exec_start)
        ELSE StartSimple(self, exec_start)

\* lines 498-509
StartPost(self) ==
    LET start_post == Opt(self, "Service", "ExecStartPost")
        One(raw) == StartDaemonCmd(raw, "start")
    IN  IF Truthy(start_post) THEN FlatMap(One, Split(start_post, Semi)) ELSE <<>>

generate_start_function(self) ==
    Then(Done(<<L("start() {"), L("\tlog_daemon_msg \"Starting $DESC\" \"$prog\"")>>
              \o StartConditions(self) \o StartWorkdir(self) \o StartPre(self)),
    Then(StartExec(self),
         Done(StartPost(self) \o <<L("}"), L("")>>)))

\* ------------------------------------------------------------------------
\* generate_stop_function, generate_status_function
\* ------------------------------------------------------------------------
\* lines 529-549
StopKill(self) ==
    LET exec_path == get_executable_path(self).val
        kill_signal == Opt(self, "Service", "KillSignal")
        ByName == IF Truthy(kill_signal)
                  THEN LA("\tstart-stop-daemon --stop --signal {} --name $(basename {}) --oknodo",
                          <<kill_signal, exec_path>>)
                  ELSE LA("\tstart-stop-daemon --stop --name $(basename {}) --oknodo", <<exec_path>>)
        ByNameIn == IF Truthy(kill_signal)
                    THEN LA("\t\tstart-stop-daemon --stop --signal {} --name $(basename {}) --oknodo",
                            <<kill_signal, exec_path>>)
                    ELSE LA("\t\tstart-stop-daemon --stop --name $(basename {}) --oknodo", <<exec_path>>)
    IN  IF Truthy(Opt(self, "Service", "PIDFile"))
        THEN <<L("\tif [ -f $PIDFILE ]; then"),
               IF Truthy(kill_signal)
               THEN LA("\t\tkillproc -p $PIDFILE -s {} {}", <<kill_signal, exec_path>>)
               ELSE LA("\t\tkillproc -p $PIDFILE {}", <<exec_path>>),
               L("\telse"), ByNameIn, L("\tfi")>>
        ELSE <<ByName>>

\* one command of ExecStopPost
StopPostCmd(raw) ==
    LET cmd == Strip(raw)
        optional == StartsWith(cmd, <<"-">>)
    IN  IF optional THEN <<LA("\t{} || true", <<From(cmd, 1)>>)>>
        ELSE <<LA("\t{}", <<cmd>>)>> \o _add_success_check("stop")

generate_stop_function(self) ==
    LET exec_stop == Opt(self, "Service", "ExecStop")
        stop_post == Opt(self, "Service", "ExecStopPost")
    IN  Then(Done(<<L("stop() {"), L("\tlog_daemon_msg \"Stopping $DESC\" \"$prog\"")>>
                  \o (IF Truthy(exec_stop) THEN FlatMap(PlainCmd, Split(exec_stop, Semi))
                      ELSE StopKill(self))),
        Then(_add_timeout_check(self, "stop"),
             Done((IF Truthy(stop_post) THEN FlatMap(StopPostCmd, Split(stop_post, Semi)) ELSE <<>>)
                  \o <<L("}"), L("")>>)))

generate_status_function(self) ==
    LET exec_path == get_executable_path(self).val
    IN  <<L("status() {")>>
        \o (IF Truthy(Opt(self, "Service", "PIDFile"))
            THEN <<L("\tif [ -f $PIDFILE ]; then"),
                   LA("\t\tstatus_of_proc -p $PIDFILE {} \"$prog\"", <<exec_path>>),
                   L("\telse"),
                   LA("\t\tstatus_of_proc {} \"$prog\"", <<exec_path>>),
                   L("\tfi")>>
            ELSE <<LA("\tstatus_of_proc {} \"$prog\"", <<exec_path>>)>>)
        \o <<L("}"), L("")>>

\* ------------------------------------------------------------------------
\* generate_reload_function, generate_force_reload_function
\* ------------------------------------------------------------------------
\* one command of ExecReload
ReloadCmd(raw) ==
    LET cmd == Strip(raw)
        optional == StartsWith(cmd, <<"-">>)
    IN  <<LA("\t{}", <<IF optional THEN From(cmd, 1) ELSE cmd>>)>>
        \o (IF ~optional THEN _add_success_check("reload") ELSE <<>>)

generate_reload_function(self) ==
    LET exec_reload == Opt(self, "Service", "ExecReload")
    IN  IF ~Truthy(exec_reload) THEN <<>>
        ELSE <<L("reload() {"), L("\tlog_daemon_msg \"Reloading $DESC\" \"$prog\"")>>
             \o FlatMap(ReloadCmd, Split(exec_reload, Semi))
             \o <<L("\texit 0"), L("}"), L("")>>

generate_force_reload_function(self) ==
    <<L("force_reload() {")>>
    \o (IF Truthy(Opt(self, "Service", "ExecReload"))
        THEN <<L("\treload"), L("\tif [ $? -ne 0 ]; then"), L("\t\trestart"), L("\tfi")>>
        ELSE <<L("\tstop"), L("\tstart")>>)
    \o <<L("}"), L("")>>

\* ------------------------------------------------------------------------
\* generate_case_statement
\* ------------------------------------------------------------------------
generate_case_statement(self) ==
    LET has_reload == Opt(self, "Service", "ExecReload") # None
    IN  <<L("case \"$1\" in"),
          L("\tstart)"), L("\t\tstart"), L("\t\t;;"),
          L("\tstop)"), L("\t\tstop"), L("\t\t;;"),
          L("\tstatus)"), L("\t\tstatus"), L("\t\t;;"),
          L("\tforce-reload)"), L("\t\tforce_reload"), L("\t\t;;"),
          L("\trestart)"), L("\t\tstop"), L("\t\tsleep 2"), L("\t\tstart"), L("\t\t;;")>>
        \o (IF has_reload
            THEN <<L("\treload)"), L("\t\treload"), L("\t\t;;"), L("\t*)"),
                   L("\t\techo \"Usage: $0 {start|stop|status|reload|force-reload|restart}\"")>>
            ELSE <<L("\t*)"),
                   L("\t\techo \"Usage: $0 {start|stop|status|force-reload|restart}\"")>>)
        \o <<L("\t\texit 2"), L("esac")>>

\* ------------------------------------------------------------------------
\* generate_init_script
\* ------------------------------------------------------------------------
generate_init_script(self, reqOrder, shouldOrder) ==
    Then(Done(<<L("#!/bin/sh")>>),
    Then(generate_lsb_header(self, reqOrder, shouldOrder),
    Then(Done(<<L("")>> \o generate_script_variables(self) \o <<L("")>>),
    Then(generate_start_function(self),
    Then(generate_stop_function(self),
         Done(generate_status_function(self)
              \o generate_reload_function(self)
              \o generate_force_reload_function(self)
              \o generate_case_statement(self)))))))

\* ------------------------------------------------------------------------
\* find_systemd_services
\* ------------------------------------------------------------------------
search_paths ==
    << "/etc/systemd/system", "/lib/systemd/system", "/usr/lib/systemd/system",
       "/usr/local/lib/systemd/system", "/run/systemd/system" >>

\* the directories of one search directory in the order of lines 49-58: the
\* directory itself, then what matches *.wants, then what matches *.requires
SubDirs == <<"", "m.wants", "m.requires">>

ServiceNames == <<"a.service", "b.service">>

\* a path DIR/NAME or DIR/SUB/NAME
Path(dir, sub, name) == [dir |-> dir, sub |-> sub, name |-> name]

\* all paths in the order in which lines 45-58 come to them
AllPaths ==
    [n \in 1..(Len(search_paths) * Len(SubDirs) * Len(ServiceNames)) |->
        Path(search_paths[((n - 1) \div (Len(SubDirs) * Len(ServiceNames))) + 1],
             SubDirs[(((n - 1) \div Len(ServiceNames)) % Len(SubDirs)) + 1],
             ServiceNames[((n - 1) % Len(ServiceNames)) + 1])]

Exists(files, path) == \E f \in files : f.path = path

SizeOf(files, path) == (CHOOSE f \in files : f.path = path).size

\* lines 44-58: the list services
Globbed(files) == SelectSeq(AllPaths, LAMBDA path : Exists(files, path))

\* '/etc/systemd' in service_path: no name and no subdirectory of the model
\* contains it
InEtcSystemd(path) == path.dir = "/etc/systemd/system"

\* lines 60-79
RECURSIVE FilterLoop(_, _, _, _)
FilterLoop(files, services, valid_services, seen_names) ==
    IF services = <<>> THEN valid_services
    ELSE LET service_path == Head(services)
             service_name == service_path.name
         IN  IF SizeOf(files, service_path) = 0
             THEN FilterLoop(files, Tail(services), valid_services, seen_names)
             ELSE IF service_name \in seen_names
             THEN FilterLoop(files, Tail(services),
                             IF InEtcSystemd(service_path)
                             THEN Append(SelectSeq(valid_services,
                                                   LAMBDA v : v[2].name # service_name),
                                         <<service_name, service_path>>)
                             ELSE valid_services,
                             seen_names)
             ELSE FilterLoop(files, Tail(services),
                             Append(valid_services, <<service_name, service_path>>),
                             seen_names \cup {service_name})

\* index of a name in the order of the names
NameRank(name) == CHOOSE k \in 1..Len(ServiceNames) : ServiceNames[k] = name

\* sorted(valid_services, key=lambda x: x[0]); the list has one entry per
\* name
SortedByName(valid_services) ==
    LET names == {valid_services[i][1] : i \in 1..Len(valid_services)}
        EntryOf(name) == valid_services[CHOOSE i \in 1..Len(valid_services) :
                                            valid_services[i][1] = name]
    IN  [k \in 1..Cardinality(names) |->
            EntryOf(CHOOSE name \in names :
                        Cardinality({m \in names : NameRank(m) < NameRank(name)}) = k - 1)]

find_systemd_services(files) ==
    SortedByName(FilterLoop(files, Globbed(files), <<>>, {}))

\* display_services
display_services(services) ==
    IF services = <<>> THEN <<L("No systemd service files found on this system.")>>
    ELSE <<LA("Found {} systemd service files:\n", <<Len(services)>>),
           L("Service Name                             Path"),
           L("--------------------------------------------------------------------------------")>>
         \o [i \in 1..Len(services) |-> LA("{:<40} {}", <<services[i][1], services[i][2]>>)]

\* ------------------------------------------------------------------------
\* Unit files given to the converter
\* ------------------------------------------------------------------------
Dir == <<"/", "e", "/">>

File(name, text) == [path |-> Dir \o name \o DotService, text |-> text]

NoFile == [path |-> <<>>, text |-> <<>>]

\* the lines "k=v" of the pairs <<k, v>> whose v is not None
OptLine(p) == IF p[2] = None THEN <<>> ELSE <<OptionLine(p[1], p[2])>>

Svc(pairs) == <<SectionLine("Service")>> \o FlatMap(OptLine, pairs)

\* sequences of 1..n elements of S
SeqsUpTo(S, n) == UNION {[1..k -> S] : k \in 1..n}

\* seq joined with " ; "
RECURSIVE JoinSemi(_)
JoinSemi(seq) == IF Len(seq) = 1 THEN seq[1] ELSE seq[1] \o Semi \o JoinSemi(Tail(seq))

TimeoutValues == {None, <<>>, <<"0">>, <<"5">>}

TypeValues == {None, <<"notify">>, <<"forking">>, <<"OneShot">>}

ExecStartValues ==
    { None,
      <<"/", "b">>,
      <<"-", "/", "b">>,
      <<"/", "b", " ", "-", "x", " ", " ", "y">>,
      <<"-", " ", "/", "b", " ", "-", "x">>,
      <<"-">> }

TimeoutTexts ==
    { Svc(<< <<"ExecStart", <<"/", "b">>>>, <<"Type", ty>>,
             <<"TimeoutSec", ts>>, <<"TimeoutStartSec", tss>> >>) :
        ty \in {None, <<"forking">>, <<"oneshot">>}, ts \in TimeoutValues, tss \in TimeoutValues }

ExecTexts ==
    { Svc(<< <<"ExecStart", es>>, <<"Type", ty>>, <<"PIDFile", pf>> >>) :
        es \in ExecStartValues, ty \in TypeValues, pf \in {None, <<"/", "r">>} }

Commands == {<<"/", "a">>, <<"-", "/", "b">>}

OneshotTexts ==
    { Svc(<< <<"Type", <<"oneshot">>>>, <<"ExecStartPre", pp[1]>>,
             <<"ExecStart", JoinSemi(cmds)>>, <<"ExecStartPost", pp[2]>> >>) :
        pp \in {<<None, None>>, <<<<"/", "q">>, <<"/", "p">>>>},
        cmds \in SeqsUpTo(Commands, MaxCmds) }

EnvValues == {<<"A", "=", "1">>, <<"B", "=", "2">>, <<"C">>}

EnvKeys == {"Environment", "ENVIRONMENT"}

EnvTexts ==
    { <<SectionLine("Service"), OptionLine("ExecStart", <<"/", "b">>)>>
      \o [i \in 1..Len(vs) |-> OptionLine(IF i = 1 THEN "Environment" ELSE k, vs[i])] :
        vs \in SeqsUpTo(EnvValues, MaxEnvLines), k \in EnvKeys }

ReloadValues ==
    {None, <<>>} \cup {JoinSemi(cmds) : cmds \in SeqsUpTo({<<"/", "r">>, <<"-", "/", "s">>}, 2)}

ReloadTexts ==
    { Svc(<< <<"ExecStart", <<"/", "b">>>>, <<"ExecReload", rl>>, <<"ExecStop", st>> >>) :
        rl \in ReloadValues, st \in {None, <<"/", "k">>} }

\* texts that do not load
BadTexts ==
    { <<>>,
      <<SectionLine("service"), OptionLine("ExecStart", <<"/", "b">>)>>,
      <<SectionLine("Unit"), OptionLine("Description", <<"d">>)>>,
      <<SectionLine("Unit"), SectionLine("Install"), OptionLine("WantedBy", <<"basic.target">>)>>,
      <<OptionLine("ExecStart", <<"/", "b">>), SectionLine("Service")>>,
      <<SectionLine("Service"), OptionLine("ExecStart", <<"/", "b">>), SectionLine("Service")>> }

\* texts with specifiers
TemplateTexts ==
    { Svc(<< <<"ExecStart", <<"/", "b", " ">> \o v>> >>) :
        v \in { Pct("i"), Pct("I") \o <<" ">> \o Pct("p"), <<"%">> \o Pct("i"), Pct("u") \o Pct("f") } }

Unit(pairs) == <<SectionLine("Unit")>> \o FlatMap(OptLine, pairs)

Install(pairs) == <<SectionLine("Install")>> \o FlatMap(OptLine, pairs)

AfterValues == {None, <<"network.target", " ", "syslog.target">>, <<"x.target">>}

RequiresValues == {None, <<"time-sync.target">>}

\* texts with dependencies
DepTexts ==
    { Unit(<< <<"After", af>>, <<"Requires", rq>> >>) \o Svc(<< <<"ExecStart", es>> >>) :
        af \in AfterValues, rq \in RequiresValues,
        es \in {<<"/", "b">>, <<"-", "/usr", "/", "b">>} }
    \cup { Unit(<< <<"Wants", <<"network.target", " ", "x.target", " ", "remote-fs.target">>>> >>)
             \o Svc(<< <<"ExecStart", <<"/", "b">>>> >>) }

WantedByValues ==
    { None, <<>>, <<"multi-user.target">>, <<"graphical.target">>, <<"basic.target">>,
      <<"rescue.target">>, <<"x.target">>, <<"basic.target", " ", "rescue.target">> }

\* texts with an [Install] section
RunlevelTexts ==
    { Unit(<< <<"After", af>> >>) \o Svc(<< <<"ExecStart", <<"/", "b">>>>, <<"Type", ty>> >>)
      \o Install(<< <<"WantedBy", wb>> >>) :
        af \in {None, <<"x.target">>}, ty \in {None, <<"oneshot">>}, wb \in WantedByValues }

PlainNames == {<<"a">>}

TemplateNames == {<<"p", "@", "i">>, <<"p", "@">>, <<"p", "@", "i", "@", "j">>, <<"@", "i">>}

\* template names whose prefix or instance has the shape of a specifier
SpecifierNames == {<<"p", "@", "%", "p">>, <<"%", "i", "@", "j">>}

\* texts with the timeouts of stop
StopTimeoutTexts ==
    { Svc(<< <<"ExecStart", <<"/", "b">>>>, <<"Type", ty>>, <<"ExecStop", st>>,
             <<"TimeoutSec", ts>>, <<"TimeoutStopSec", tss>> >>) :
        ty \in {None, <<"oneshot">>}, st \in {None, <<"/", "k">>},
        ts \in {None, <<"5">>}, tss \in {None, <<"0">>, <<"5">>} }

Files ==
    {File(n, t) : n \in PlainNames,
                  t \in TimeoutTexts \cup ExecTexts \cup OneshotTexts \cup EnvTexts \cup ReloadTexts
                        \cup DepTexts \cup RunlevelTexts \cup StopTimeoutTexts}
    \cup {File(n, t) : n \in PlainNames, t \in BadTexts}
    \cup {File(n, t) : n \in PlainNames \cup TemplateNames \cup SpecifierNames,
                        t \in TemplateTexts}

\* the files given to a converter instance that is used for several files
ReuseFiles ==
    {File(n, t) : n \in PlainNames \cup TemplateNames, t \in TemplateTexts}
    \cup {File(n, t) : n \in PlainNames, t \in BadTexts \cup ReloadTexts}

\* ------------------------------------------------------------------------
\* The conversion: state and actions
\* ------------------------------------------------------------------------
VARIABLES
    converter,  \* the SystemdServiceConverter instance
    pc,         \* where the caller of the converter is
    loads,      \* parse_service_file calls made so far
    file,       \* the argument of the last parse_service_file call
    stdout,     \* lines written to standard output
    outfile,    \* lines written to the output file
    sh,         \* the run of the printed script
    disk,       \* the service files under the search directories
    listing     \* what find_systemd_services returned

vars == <<converter, pc, loads, file, stdout, outfile, sh, disk, listing>>

\* no script is running
ShIdle ==
    [verb |-> "", world |-> "", ip |-> 0, stack |-> <<>>, status |-> 0, trace |-> <<>>, exit |-> -1]

Init ==
    /\ converter = NewConverter
    /\ pc = "new"
    /\ loads = 0
    /\ file = NoFile
    /\ stdout = <<>>
    /\ outfile = <<>>
    /\ sh = ShIdle
    /\ disk = {}
    /\ listing = None

\* converter.parse_service_file(f), and whether it raised
ParseServiceFile(f) ==
    /\ pc \in {"new", "loaded", "failed"}
    /\ loads < MaxLoads
    /\ LET r == parse_service_file(converter, f)
       IN  /\ converter' = r.self
           /\ pc' = IF r.ok THEN "loaded" ELSE "failed"
    /\ loads' = loads + 1
    /\ file' = f
    /\ UNCHANGED <<stdout, outfile, sh, disk, listing>>

\* main, lines 771-773: the error is reported and the process exits 1
MainParseError ==
    /\ pc = "failed"
    /\ stdout' = Append(stdout, L("Error parsing service file: {e}"))
    /\ pc' = "exit1"
    /\ UNCHANGED <<converter, loads, file, outfile, sh, disk, listing>>

\* main, lines 839-841: no output file, the script is printed
GenerateToStdout(reqOrder, shouldOrder) ==
    /\ pc = "loaded"
    /\ LET r == generate_init_script(converter, reqOrder, shouldOrder)
       IN  /\ stdout' = stdout \o r.lines
           /\ pc' = IF r.ok THEN "done" ELSE "crashed"
    /\ UNCHANGED <<converter, loads, file, outfile, sh, disk, listing>>

\* main, lines 803-823: the output file, which did not exist, is opened for
\* writing and standard output is redirected to it while the script is
\* generated
GenerateToFile(reqOrder, shouldOrder) ==
    /\ pc = "loaded"
    /\ LET r == generate_init_script(converter, reqOrder, shouldOrder)
       IN  /\ outfile' = r.lines
           /\ stdout' = stdout
                        \o (IF r.ok THEN <<L("Init script written to {output_file} with execute permissions")>>
                            ELSE <<>>)
           /\ pc' = IF r.ok THEN "done" ELSE "crashed"
    /\ UNCHANGED <<converter, loads, file, sh, disk, listing>>

Generate ==
    /\ pc = "loaded"
    /\ \E reqOrder \in Orders(IF get_executable_path(converter).ok THEN required_deps(converter) ELSE <<>>),
          shouldOrder \in Orders(should_deps(converter)) :
            \/ GenerateToStdout(reqOrder, shouldOrder)
            \/ GenerateToFile(reqOrder, shouldOrder)

\* main, lines 769-770: the one call of a run
MainParse == \E f \in Files : loads = 0 /\ ParseServiceFile(f)

\* one run of main
Next ==
    \/ MainParse
    \/ MainParseError
    \/ Generate

Spec == Init /\ [][Next]_vars

\* a caller that converts several files with one converter instance calls
\* parse_service_file again, after a load or after a failure
ParseAgain == \E f \in ReuseFiles : ParseServiceFile(f)

NextReuse ==
    \/ ParseAgain
    \/ MainParseError
    \/ Generate

SpecReuse == Init /\ [][NextReuse]_vars

\* the service files that can be under the search directories: regular files,
\* empty or not
DiskFiles ==
    {[path |-> AllPaths[n], size |-> size] : n \in 1..Len(AllPaths), size \in {0, 1}}

\* before the program runs a service file is put under a search directory
CreateFile(f) ==
    /\ pc = "new"
    /\ Cardinality(disk) < MaxFiles
    /\ ~Exists(disk, f.path)
    /\ disk' = disk \cup {f}
    /\ UNCHANGED <<converter, pc, loads, file, stdout, outfile, sh, listing>>

\* main, lines 754-756: --list
MainList ==
    /\ pc = "new"
    /\ listing' = find_systemd_services(disk)
    /\ stdout' = stdout \o display_services(find_systemd_services(disk))
    /\ pc' = "listed"
    /\ UNCHANGED <<converter, loads, file, outfile, sh, disk>>

NextFind ==
    \/ \E f \in DiskFiles : CreateFile(f)
    \/ MainList

SpecFind == Init /\ [][NextFind]_vars

\* ------------------------------------------------------------------------
\* Reading the unit file and the printed script
\* ------------------------------------------------------------------------
\* the values, in file order, that the text gives to key in section sec
RECURSIVE ValuesIn(_, _, _, _)
ValuesIn(lines, cur, sec, key) ==
    IF lines = <<>> THEN <<>>
    ELSE LET line == Head(lines)
         IN  IF line.kind = "section" THEN ValuesIn(Tail(lines), line.name, sec, key)
             ELSE (IF cur = sec /\ Lower(line.name) = Lower(key) THEN <<Strip(line.value)>> ELSE <<>>)
                  \o ValuesIn(Tail(lines), cur, sec, key)

Values(f, sec, key) == ValuesIn(f.text, "", sec, key)

\* the value of a directive written once, None when it is not written
Directive(f, sec, key) ==
    IF Values(f, sec, key) = <<>> THEN None ELSE Values(f, sec, key)[1]

\* the script lines that reached the destination
Emitted ==
    IF outfile # <<>> THEN outfile
    ELSE IF pc \in {"done", "crashed"} THEN stdout
    ELSE <<>>

HasLine(lines, t) == \E i \in 1..Len(lines) : lines[i].t = t

\* index of the first line with text t, 0 if there is none
FirstIndex(lines, t) ==
    IF HasLine(lines, t) THEN CHOOSE i \in 1..Len(lines) :
                                  lines[i].t = t /\ \A j \in 1..(i - 1) : lines[j].t # t
    ELSE 0

\* the lines of the procedure opened by the line open, without the opening
\* line and the closing "}"; all that follows when it was never closed
Body(lines, open) ==
    LET b == FirstIndex(lines, open)
        rest == From(lines, b)
        e == FirstIndex(rest, "}")
    IN  IF b = 0 THEN <<>>
        ELSE IF e = 0 THEN rest ELSE SubSeq(rest, 1, e - 1)

Count(lines, t) == Cardinality({i \in 1..Len(lines) : lines[i].t = t})

Generated == pc \in {"done", "crashed"}

\* ------------------------------------------------------------------------
\* C1
\* ------------------------------------------------------------------------
\* TimeoutStartSec if it is set and not 0, otherwise TimeoutSec
ResolvedStartTimeout(f) ==
    LET tss == Directive(f, "Service", "TimeoutStartSec")
    IN  IF Truthy(tss) /\ tss # <<"0">> THEN tss ELSE Directive(f, "Service", "TimeoutSec")

PositiveTimeout(v) == Truthy(v) /\ v # <<"0">>

HasPollLoop(body) ==
    /\ HasLine(body, "\twhile [ $TIMEOUT -gt 0 ]; do")
    /\ HasLine(body, "\t\tsleep 1")
    /\ HasLine(body, "\t\texit 1")

BackgroundStart(f) ==
    /\ Truthy(Directive(f, "Service", "ExecStart"))
    /\ LowerStr(IF Directive(f, "Service", "Type") = None THEN <<"simple">>
                ELSE Directive(f, "Service", "Type")) # <<"oneshot">>

\* C1: for a unit with an ExecStart and a type other than oneshot, the start
\* procedure that was emitted has the once-per-second polling loop exactly
\* when the resolved start timeout (TimeoutStartSec if set and not 0, else
\* TimeoutSec) is positive, and has one immediate success check when it is not.
C1_PollLoopIffTimeout ==
    (Generated /\ BackgroundStart(file) /\ HasLine(Emitted, "start() {"))
    => LET body == Body(Emitted, "start() {")
       IN  /\ HasPollLoop(body) <=> PositiveTimeout(ResolvedStartTimeout(file))
           /\ ~PositiveTimeout(ResolvedStartTimeout(file))
                => Count(body, "\tif [ $? -ne 0 ]; then") = 1

\* ------------------------------------------------------------------------
\* C2
\* ------------------------------------------------------------------------
Exports(lines) ==
    LET ex == SelectSeq(lines, LAMBDA l : l.t = "export {}")
    IN  [i \in 1..Len(ex) |-> ex[i].a[1]]

\* C2: when Environment is written on several lines of [Service], the parsed
\* document holds their values joined by single spaces in file order, and the
\* variable block has one export per KEY=VALUE pair of that merged value.
C2_DuplicateKeysMerged ==
    LET vals == Values(file, "Service", "Environment")
        merged == Join(vals)
    IN  (Len(vals) >= 2 /\ pc \in {"loaded", "done", "crashed"})
        => /\ converter.config["Service"]["environment"] = merged
           /\ pc = "done"
                => Exports(Emitted) = SelectSeq(Words(merged), LAMBDA w : Contains(w, <<"=">>))

\* ------------------------------------------------------------------------
\* C3
\* ------------------------------------------------------------------------
ReloadProcedure == HasLine(Emitted, "reload() {")
ReloadCase == HasLine(Emitted, "\treload)")
ReloadInUsage ==
    HasLine(Emitted, "\t\techo \"Usage: $0 {start|stop|status|reload|force-reload|restart}\"")

\* C3: in a complete script the reload procedure is defined if and only if
\* the dispatch table has a reload case and the usage line lists reload;
\* ExecReload absent gives none of the three and ExecReload present (an empty
\* value included) gives all three.
C3_ReloadConsistent ==
    pc = "done"
    => /\ ReloadProcedure <=> ReloadCase
       /\ ReloadCase <=> ReloadInUsage
       /\ Directive(file, "Service", "ExecReload") = None
            => ~ReloadProcedure /\ ~ReloadCase /\ ~ReloadInUsage
       /\ Directive(file, "Service", "ExecReload") # None
            => ReloadProcedure /\ ReloadCase /\ ReloadInUsage

\* ------------------------------------------------------------------------
\* Running the printed script
\* ------------------------------------------------------------------------
\* units whose scripts are run
RunTexts ==
    ReloadTexts
    \cup { Svc(<< <<"ExecStart", <<"/", "b">>>>, <<"PIDFile", <<"/", "r">>>>,
                  <<"ExecReload", rl>> >>) : rl \in {None, <<"/", "r">>} }

\* the path that the conditions of the units name
CondPath == <<"/", "c">>

ConditionKeys ==
    <<"ConditionPathExists", "ConditionPathExistsGlob", "ConditionFileNotEmpty",
      "ConditionDirectoryNotEmpty">>

\* the [Unit] section with the conditions of the set cs of indexes
CondUnit(cs) ==
    Unit([i \in 1..4 |-> <<ConditionKeys[i], IF i \in cs THEN CondPath ELSE None>>])

\* units with conditions
CondTexts ==
    { CondUnit(cs) \o Svc(<< <<"ExecStart", <<"/", "b">>>> >>) : cs \in SUBSET (1..4) }
    \cup { CondUnit(cs) \o Svc(<< <<"ExecStart", <<"/", "b">>>>,
                                   <<"WorkingDirectory", <<"/", "w">>>>,
                                   <<"ExecStartPre", <<"/", "q">>>>,
                                   <<"ExecStartPost", <<"/", "p">>>> >>) :
              cs \in {{}, {1}, {1, 2, 3, 4}} }

PreCommands == {<<"/", "q">>, <<"-", "/", "p">>}

\* units with a list of ExecStartPre commands
PreTexts ==
    { Svc(<< <<"ExecStartPre", JoinSemi(cmds)>>, <<"ExecStart", <<"/", "b">>>> >>) :
        cmds \in SeqsUpTo(PreCommands, MaxPre) }

RunFiles == {File(n, t) : n \in PlainNames, t \in RunTexts \cup CondTexts \cup PreTexts}

\* what is at CondPath when the script runs: nothing, an empty file or
\* directory, one that is not empty
Worlds == {"missing", "empty", "nonempty"}

\* the script of a unit without conditions does not look at CondPath
WorldsOf(f) ==
    IF \E i \in 1..4 : Truthy(Directive(f, "Unit", ConditionKeys[i])) THEN Worlds
    ELSE {"missing"}

\* what the script is called with; "x" is a word it does not know
Verbs == {"start", "stop", "status", "reload", "force-reload", "restart", "x"}

\* the label of the case statement that "$1" matches
CaseLabel(script, verb) ==
    LET label == CASE verb = "start" -> "\tstart)"
                   [] verb = "stop" -> "\tstop)"
                   [] verb = "status" -> "\tstatus)"
                   [] verb = "force-reload" -> "\tforce-reload)"
                   [] verb = "restart" -> "\trestart)"
                   [] verb = "reload" -> "\treload)"
                   [] OTHER -> "\t*)"
    IN  IF HasLine(script, label) THEN label ELSE "\t*)"

\* the name a line calls, "" for the other lines
Callee(t) ==
    CASE t \in {"\tstart", "\t\tstart"} -> "start"
      [] t \in {"\tstop", "\t\tstop"} -> "stop"
      [] t = "\t\tstatus" -> "status"
      [] t \in {"\treload", "\t\treload"} -> "reload"
      [] t = "\t\tforce_reload" -> "force_reload"
      [] t = "\t\trestart" -> "restart"
      [] OTHER -> ""

\* the line that opens the definition of a procedure
Header(name) ==
    CASE name = "start" -> "start() {"
      [] name = "stop" -> "stop() {"
      [] name = "status" -> "status() {"
      [] name = "reload" -> "reload() {"
      [] name = "force_reload" -> "force_reload() {"
      [] OTHER -> "restart() {"

\* the exit lines and their codes
ExitCode(t) ==
    CASE t \in {"\texit 0", "\t\texit 0"} -> 0
      [] t = "\t\texit 1" -> 1
      [] t = "\t\texit 2" -> 2
      [] OTHER -> -1

IfFailed == "\tif [ $? -ne 0 ]; then"

IfSucceeded == "\tif [ $? -eq 0 ]; then"

\* tests of the file system
IfOther == {"\tif [ -f $PIDFILE ]; then"}

\* the guards of the conditions
IfNotS == "\tif [ ! -s {} ]; then"

IfNoLs == "\tif ! ls {} 1> /dev/null 2>&1; then"

IfNoDir == "\tif [ ! -d {} ] || [ -z \"$(ls -A {})\" ]; then"

\* whether the test of a guard is true: -s is true for what exists and is
\* not empty, ls fails when nothing matches, ls -A prints nothing for an
\* empty directory
GuardHolds(t, world) ==
    CASE t = IfNotS -> world # "nonempty"
      [] t = IfNoLs -> world = "missing"
      [] OTHER -> world # "nonempty"

CdOrBlock == "\tcd {} || {"

\* lines of init-functions and of the shell that end with status 0
Helpers ==
    { "\tlog_daemon_msg \"Starting $DESC\" \"$prog\"",
      "\tlog_daemon_msg \"Stopping $DESC\" \"$prog\"",
      "\tlog_daemon_msg \"Reloading $DESC\" \"$prog\"",
      "\t\tlog_end_msg 0", "\t\tsleep 2",
      "\t\techo \"Usage: $0 {start|stop|status|reload|force-reload|restart}\"",
      "\t\techo \"Usage: $0 {start|stop|status|force-reload|restart}\"" }

\* log_end_msg returns its argument
HelperStatus(t) == IF t = "\t\tlog_end_msg 1" THEN 1 ELSE 0

IsControl(t) ==
    \/ Callee(t) # ""
    \/ ExitCode(t) # -1
    \/ t \in {IfFailed, IfSucceeded, "\telse", "\tfi", "}", "\t\t;;"} \cup IfOther
    \/ t \in {IfNotS, IfNoLs, IfNoDir, CdOrBlock}

\* index of the first line after line i with a text in ts
NextLine(script, i, ts) ==
    CHOOSE j \in (i + 1)..Len(script) :
        script[j].t \in ts /\ \A k \in (i + 1)..(j - 1) : script[k].t \notin ts

Event(kind, name, line, status) ==
    [kind |-> kind, name |-> name, line |-> line, status |-> status]

Running == pc = "done" /\ outfile # <<>> /\ sh.verb # "" /\ sh.exit = -1

\* the text of the line the shell is at
Here == outfile[sh.ip].t

\* the script is called with a verb: the procedures are defined and the
\* case statement is entered
Invoke(verb, world) ==
    /\ pc = "done" /\ outfile # <<>> /\ sh.verb = ""
    /\ sh' = [sh EXCEPT !.verb = verb, !.world = world,
                        !.ip = FirstIndex(outfile, CaseLabel(outfile, verb)) + 1]
    /\ UNCHANGED <<converter, pc, loads, file, stdout, outfile, disk, listing>>

\* a line that is the name of a procedure: it is entered when the script
\* defines it, otherwise the shell reports 127
RunCall ==
    /\ Running /\ Callee(Here) # ""
    /\ sh' = IF HasLine(outfile, Header(Callee(Here)))
             THEN [sh EXCEPT !.ip = FirstIndex(outfile, Header(Callee(Here))) + 1,
                             !.stack = <<sh.ip + 1>> \o sh.stack,
                             !.trace = Append(sh.trace, Event("call", Callee(Here), sh.ip, 0))]
             ELSE [sh EXCEPT !.ip = sh.ip + 1, !.status = 127,
                             !.trace = Append(sh.trace, Event("notfound", Callee(Here), sh.ip, 127))]
    /\ UNCHANGED <<converter, pc, loads, file, stdout, outfile, disk, listing>>

\* the closing line of a procedure
RunReturn ==
    /\ Running /\ Here = "}"
    /\ sh' = [sh EXCEPT !.ip = Head(sh.stack), !.stack = Tail(sh.stack)]
    /\ UNCHANGED <<converter, pc, loads, file, stdout, outfile, disk, listing>>

\* exit N ends the script, wherever it is executed
RunExit ==
    /\ Running /\ ExitCode(Here) # -1
    /\ sh' = [sh EXCEPT !.exit = ExitCode(Here)]
    /\ UNCHANGED <<converter, pc, loads, file, stdout, outfile, disk, listing>>

\* if ...; then: the branch is entered or skipped up to else or fi
RunIf ==
    /\ Running /\ Here \in {IfFailed, IfSucceeded, IfNotS, IfNoLs, IfNoDir} \cup IfOther
    /\ \E holds \in BOOLEAN :
         /\ Here = IfFailed => holds = (sh.status # 0)
         /\ Here = IfSucceeded => holds = (sh.status = 0)
         /\ Here \in {IfNotS, IfNoLs, IfNoDir} => holds = GuardHolds(Here, sh.world)
         /\ sh' = [sh EXCEPT !.status = 0,
                             !.ip = IF holds THEN sh.ip + 1
                                    ELSE NextLine(outfile, sh.ip, {"\telse", "\tfi"}) + 1]
    /\ UNCHANGED <<converter, pc, loads, file, stdout, outfile, disk, listing>>

\* else, reached at the end of the first branch
RunElse ==
    /\ Running /\ Here = "\telse"
    /\ sh' = [sh EXCEPT !.ip = NextLine(outfile, sh.ip, {"\tfi"}) + 1]
    /\ UNCHANGED <<converter, pc, loads, file, stdout, outfile, disk, listing>>

\* cd DIR || { ...; }: the block is entered when cd fails
RunCd ==
    /\ Running /\ Here = CdOrBlock
    /\ \E status \in {0, 1} :
         sh' = [sh EXCEPT !.status = status,
                          !.ip = IF status = 0 THEN NextLine(outfile, sh.ip, {"\t}"}) + 1
                                 ELSE sh.ip + 1,
                          !.trace = Append(sh.trace, Event("cd", "", sh.ip, status))]
    /\ UNCHANGED <<converter, pc, loads, file, stdout, outfile, disk, listing>>

RunFi ==
    /\ Running /\ Here = "\tfi"
    /\ sh' = [sh EXCEPT !.ip = sh.ip + 1]
    /\ UNCHANGED <<converter, pc, loads, file, stdout, outfile, disk, listing>>

\* ;; leaves the case statement, the last line of the script
RunEndCase ==
    /\ Running /\ Here = "\t\t;;"
    /\ sh' = [sh EXCEPT !.exit = sh.status]
    /\ UNCHANGED <<converter, pc, loads, file, stdout, outfile, disk, listing>>

RunHelper ==
    /\ Running /\ Here \in Helpers \cup {"\t\tlog_end_msg 1"}
    /\ sh' = [sh EXCEPT !.ip = sh.ip + 1, !.status = HelperStatus(Here)]
    /\ UNCHANGED <<converter, pc, loads, file, stdout, outfile, disk, listing>>

\* a command of the unit or of the system: it succeeds or it fails
RunCommand ==
    /\ Running /\ ~IsControl(Here) /\ Here \notin Helpers \cup {"\t\tlog_end_msg 1"}
    /\ \E status \in {0, 1} :
         sh' = [sh EXCEPT !.ip = sh.ip + 1, !.status = status,
                          !.trace = Append(sh.trace, Event("cmd", "", sh.ip, status))]
    /\ UNCHANGED <<converter, pc, loads, file, stdout, outfile, disk, listing>>

MainParseRun == \E f \in RunFiles : loads = 0 /\ ParseServiceFile(f)

NextRun ==
    \/ MainParseRun
    \/ Generate
    \/ \E verb \in Verbs, world \in WorldsOf(file) : Invoke(verb, world)
    \/ RunCall
    \/ RunReturn
    \/ RunExit
    \/ RunIf
    \/ RunElse
    \/ RunCd
    \/ RunFi
    \/ RunEndCase
    \/ RunHelper
    \/ RunCommand

SpecRun == Init /\ [][NextRun]_vars

\* ------------------------------------------------------------------------
\* C4
\* ------------------------------------------------------------------------
\* positions of the trace where the procedure name was entered
Calls(name) ==
    {i \in 1..Len(sh.trace) : sh.trace[i].kind = "call" /\ sh.trace[i].name = name}

\* the lines of the script inside the definition of the procedure name
LinesOf(name) ==
    LET b == FirstIndex(outfile, Header(name))
    IN  IF b = 0 THEN {}
        ELSE {i \in (b + 1)..Len(outfile) : i < NextLine(outfile, b, {"}"})}

\* positions of the trace where a command of reload that is followed by the
\* success check returned nonzero
RequiredReloadFailures ==
    {i \in 1..Len(sh.trace) :
        /\ sh.trace[i].kind = "cmd" /\ sh.trace[i].status # 0
        /\ sh.trace[i].line \in LinesOf("reload")
        /\ outfile[sh.trace[i].line + 1].t = IfFailed}

\* after position k of the trace stop was entered and then start, or the run
\* ended inside stop
StopThenStartAfter(k) ==
    \E i \in Calls("stop") :
        /\ k < i
        /\ \/ \E j \in Calls("start") : i < j
           \/ sh.ip \in LinesOf("stop")

Finished(verb) == pc = "done" /\ sh.verb = verb /\ sh.exit # -1

\* C4: a finished run of force-reload on the script of a unit with an
\* ExecReload entered reload, and after every required reload command that
\* returned nonzero it entered stop and then start; without an ExecReload it
\* entered stop and then start.
C4_ForceReloadFallsBack ==
    Finished("force-reload") =>
        IF Truthy(Directive(file, "Service", "ExecReload"))
        THEN /\ Calls("reload") # {}
             /\ \A k \in RequiredReloadFailures : StopThenStartAfter(k)
        ELSE StopThenStartAfter(0)

\* ------------------------------------------------------------------------
\* C5
\* ------------------------------------------------------------------------
\* C5: whenever script generation has run for a unit that loaded, it ran to
\* completion and the destination holds the whole script, from the shebang
\* line to the end of the dispatch table; no run ends in an error with part
\* of the script written.
C5_GenerationAtomic ==
    Generated
    => /\ pc = "done"
       /\ Emitted # <<>>
       /\ Emitted[1].t = "#!/bin/sh"
       /\ Emitted[Len(Emitted)].t = "esac"

\* ------------------------------------------------------------------------
\* C6
\* ------------------------------------------------------------------------
HasServiceSection(f) ==
    \E i \in 1..Len(f.text) : f.text[i].kind = "section" /\ f.text[i].name = "Service"

ErrorLine(l) == l.t = "Error parsing service file: {e}"

IsOneshot(f) ==
    /\ Truthy(Directive(f, "Service", "ExecStart"))
    /\ Directive(f, "Service", "Type") # None
    /\ LowerStr(Directive(f, "Service", "Type")) = <<"oneshot">>

\* the commands of a directive: the pieces between " ; ", without the
\* surrounding blanks and the leading "-"
CommandOf(raw) == IF StartsWith(Strip(raw), <<"-">>) THEN From(Strip(raw), 1) ELSE Strip(raw)

CommandsOf(f, key) ==
    LET v == Directive(f, "Service", key)
    IN  IF ~Truthy(v) THEN <<>>
        ELSE [i \in 1..Len(Split(v, Semi)) |-> CommandOf(Split(v, Semi)[i])]

IsHelperLine(l) ==
    l.t \in {"\tstart_daemon {}", "\tstart_daemon -p $PIDFILE {}",
             "\tstart-stop-daemon --start --background --pidfile $PIDFILE --startas {} -- {}",
             "\tstart-stop-daemon --start --background --make-pidfile --pidfile $PIDFILE --startas {} -- {}",
             "\tstart-stop-daemon --start --background --pidfile $PIDFILE --exec {}",
             "\tstart-stop-daemon --start --background --make-pidfile --pidfile $PIDFILE --exec {}"}

\* the number of success checks in lines from index lo on, up to the next
\* helper line
RECURSIVE ChecksFrom(_, _)
ChecksFrom(lines, lo) ==
    IF lo > Len(lines) \/ IsHelperLine(lines[lo]) THEN 0
    ELSE (IF lines[lo].t = "\tif [ $? -ne 0 ]; then" THEN 1 ELSE 0) + ChecksFrom(lines, lo + 1)

\* C10: for Type=oneshot the start procedure has the n commands of ExecStart
\* in their order as n consecutive foreground lines, no background-start
\* helper runs any of them, and exactly one success check follows the last.
C10_OneshotCommandsThenOneCheck ==
    (Generated /\ IsOneshot(file) /\ HasLine(Emitted, "start() {"))
    => LET body == Body(Emitted, "start() {")
           cmds == CommandsOf(file, "ExecStart")
           n == Len(cmds)
           k == FirstIndex(body, "\t{}")
       IN  /\ k > 0
           /\ Count(body, "\t{}") = n
           /\ \A j \in 1..n : body[k + j - 1] = LA("\t{}", <<cmds[j]>>)
           /\ Cardinality({i \in 1..Len(body) : IsHelperLine(body[i])})
                = Len(CommandsOf(file, "ExecStartPre")) + Len(CommandsOf(file, "ExecStartPost"))
           /\ body[k + n].t = "\tif [ $? -ne 0 ]; then"
           /\ ChecksFrom(body, k + n) = 1

\* a oneshot unit with three commands and an ExecStartPost was converted
C10_Witness ==
    /\ pc = "done"
    /\ IsOneshot(file)
    /\ Len(CommandsOf(file, "ExecStart")) = 3
    /\ Len(CommandsOf(file, "ExecStartPost")) = 1
    /\ Count(Body(Emitted, "start() {"), "\t{}") = 3

\* ------------------------------------------------------------------------
\* C7
\* ------------------------------------------------------------------------
\* the base name of the file without the .service suffix
UnitName(f) ==
    LET b == Basename(f.path)
        n == Len(b) - Len(DotService)
    IN  IF n >= 0 /\ From(b, n) = DotService THEN SubSeq(b, 1, n) ELSE b

HasAt(n) == \E i \in 1..Len(n) : n[i] = "@"

FirstAt(n) == CHOOSE i \in 1..Len(n) : n[i] = "@" /\ \A j \in 1..(i - 1) : n[j] # "@"

\* the whole part before the "@" and the whole part after it
BeforeAt(n) == SubSeq(n, 1, FirstAt(n) - 1)
AfterAt(n) == From(n, FirstAt(n))

\* text with every %i and every %I replaced by inst, in one pass
RECURSIVE InstanceReplaced(_, _)
InstanceReplaced(text, inst) ==
    IF Len(text) < 2 THEN text
    ELSE IF SubSeq(text, 1, 2) \in {Pct("i"), Pct("I")}
         THEN inst \o InstanceReplaced(From(text, 2), inst)
         ELSE <<Head(text)>> \o InstanceReplaced(Tail(text), inst)

\* the text has no "%" outside %i and %I
OnlyInstanceSpecifiers(text) == ~Contains(InstanceReplaced(text, <<>>), <<"%">>)

\* the text is one that configparser reads and that has a [Service] section
Loadable(f) ==
    /\ HasServiceSection(f)
    /\ f.text[1].kind = "section"
    /\ \A i, j \in 1..Len(f.text) :
         (i # j /\ f.text[i].kind = "section" /\ f.text[j].kind = "section")
         => f.text[i].name # f.text[j].name

Failed == pc \in {"failed", "exit1"}
Loaded == pc \in {"loaded", "done", "crashed"}

\* C7: on a new converter, a name with "@" makes the unit a template whose
\* prefix is all that precedes the "@" and whose instance is all that follows
\* it; the load fails when that instance is empty and succeeds otherwise; a
\* name without "@" is not a template; in a template unit every %i and %I of
\* a directive value is replaced by the instance.
C7_TemplateContext ==
    /\ (loads = 1 /\ HasAt(UnitName(file)) /\ AfterAt(UnitName(file)) = <<>>) => Failed
    /\ (loads = 1 /\ HasAt(UnitName(file)) /\ AfterAt(UnitName(file)) # <<>> /\ Loadable(file))
         => Loaded
    /\ (loads = 1 /\ HasAt(UnitName(file)) /\ Loaded)
         => /\ converter.template_service
            /\ converter.prefix_name = BeforeAt(UnitName(file))
            /\ converter.instance_name = AfterAt(UnitName(file))
    /\ (loads = 1 /\ HasAt(UnitName(file)) /\ Loaded
          /\ OnlyInstanceSpecifiers(Directive(file, "Service", "ExecStart")))
         => converter.config["Service"]["execstart"]
              = Strip(InstanceReplaced(Directive(file, "Service", "ExecStart"),
                                       AfterAt(UnitName(file))))
    /\ (loads = 1 /\ ~HasAt(UnitName(file)) /\ Loaded) => ~converter.template_service

\* ------------------------------------------------------------------------
\* C8
\* ------------------------------------------------------------------------
\* C8: after a successful load of a file, whatever was loaded before on the
\* same instance, the document and the template context are those a new
\* instance has after loading that file, and the template flag is set exactly
\* when the name of the file has an "@".
C8_NoStateBetweenFiles ==
    Loaded
    => /\ converter = parse_service_file(NewConverter, file).self
       /\ converter.template_service <=> HasAt(UnitName(file))

\* ------------------------------------------------------------------------
\* C9
\* ------------------------------------------------------------------------
IsSimple(f) ==
    /\ Truthy(Directive(f, "Service", "ExecStart"))
    /\ Directive(f, "Service", "Type") \in
         {None, <<"simple">>, <<"exec">>, <<"notify">>, <<"idle">>}

\* ExecStart without the leading "-"
Command(f) ==
    LET es == Directive(f, "Service", "ExecStart")
    IN  IF StartsWith(es, <<"-">>) THEN From(es, 1) ELSE es

\* what follows the first whitespace-delimited token, without the
\* surrounding blanks
RECURSIVE DropToken(_)
DropToken(s) == IF s = <<>> \/ IsSpace(Head(s)) THEN s ELSE DropToken(Tail(s))

Arguments(s) == Strip(DropToken(LStrip(s)))

StartAs(make) ==
    IF make
    THEN "\tstart-stop-daemon --start --background --make-pidfile --pidfile $PIDFILE --startas {} -- {}"
    ELSE "\tstart-stop-daemon --start --background --pidfile $PIDFILE --startas {} -- {}"

StartExecForm(make) ==
    IF make
    THEN "\tstart-stop-daemon --start --background --make-pidfile --pidfile $PIDFILE --exec {}"
    ELSE "\tstart-stop-daemon --start --background --pidfile $PIDFILE --exec {}"

\* C9: for Type absent, simple, exec, notify or idle (in a unit that is not a
\* template, so that ExecStart is as written) the start procedure has
\* one call of the background-start helper; its executable is the first token
\* of ExecStart without the leading "-"; further tokens follow "--" unchanged
\* in the --startas form, and without further tokens the --exec form is used;
\* --make-pidfile is given exactly when PIDFile is not configured.
C9_BackgroundHelperCall ==
    (Generated /\ IsSimple(file) /\ ~HasAt(UnitName(file)) /\ HasLine(Emitted, "start() {"))
    => LET body == Body(Emitted, "start() {")
           exe == Words(Command(file))[1]
           args == Arguments(Command(file))
           make == ~Truthy(Directive(file, "Service", "PIDFile"))
           calls == SelectSeq(body, IsHelperLine)
       IN  /\ Len(calls) = 1
           /\ calls[1] = IF args # <<>> THEN LA(StartAs(make), <<exe, args>>)
                         ELSE LA(StartExecForm(make), <<exe>>)

\* ------------------------------------------------------------------------
\* C11
\* ------------------------------------------------------------------------
\* the tokens of the header line with text t
TokensOn(t) ==
    Range(Words(Emitted[FirstIndex(Emitted, t)].a[1]))

\* the executable of the unit: the first token of ExecStart without the "-"
ExecutableOf(f) ==
    IF ~Truthy(Directive(f, "Service", "ExecStart")) \/ Words(Command(f)) = <<>> THEN <<>>
    ELSE Words(Command(f))[1]

\* the tokens of a directive of [Unit]
UnitTokens(f, key) ==
    IF Directive(f, "Unit", key) = None THEN {} ELSE Range(Words(Directive(f, "Unit", key)))

\* the facility the table gives for a unit name
TableImage(tok) ==
    CASE tok = <<"network.target">> -> {<<"$", "network">>}
      [] tok = <<"syslog.target">> -> {<<"$", "syslog">>}
      [] tok = <<"remote-fs.target">> -> {<<"$", "remote_fs">>}
      [] tok = <<"time-sync.target">> -> {<<"$", "time">>}
      [] tok = <<"rpcbind.service">> -> {<<"$", "portmap">>}
      [] tok = <<"nss-lookup.target">> -> {<<"$", "named">>}
      [] OTHER -> {}

RequiredFacilities(f) ==
    {<<"$", "syslog">>, <<"$", "local_fs">>}
    \cup (IF StartsWith(ExecutableOf(f), <<"/usr">>) THEN {<<"$", "remote_fs">>} ELSE {})
    \cup UNION {TableImage(tok) : tok \in UnitTokens(f, "After") \cup UnitTokens(f, "Requires")}

\* C11: the tokens of the Required-Start line and of the Required-Stop line
\* are the same set: $syslog, $local_fs, $remote_fs when the executable
\* starts with /usr, and the table's image of the tokens of After and
\* Requires; for After=network.target syslog.target with an executable not
\* under /usr it is {$syslog, $local_fs, $network}; a complete script has
\* both lines.
C11_RequiredFacilities ==
    /\ pc = "done" => HasLine(Emitted, "# Required-Start:\t{}")
    /\ (Generated /\ HasLine(Emitted, "# Required-Start:\t{}"))
         => /\ HasLine(Emitted, "# Required-Stop:\t{}")
            /\ TokensOn("# Required-Start:\t{}") = TokensOn("# Required-Stop:\t{}")
            /\ TokensOn("# Required-Start:\t{}") = RequiredFacilities(file)
            /\ (/\ Directive(file, "Unit", "After") = <<"network.target", " ", "syslog.target">>
                /\ Directive(file, "Unit", "Requires") = None
                /\ ~StartsWith(ExecutableOf(file), <<"/usr">>))
                 => TokensOn("# Required-Start:\t{}")
                      = {<<"$", "syslog">>, <<"$", "local_fs">>, <<"$", "network">>}

\* a complete script for an executable under /usr, an After token that is
\* not in the table and a Requires token that is
C11_Witness ==
    /\ pc = "done"
    /\ Directive(file, "Unit", "After") = <<"x.target">>
    /\ Directive(file, "Unit", "Requires") = <<"time-sync.target">>
    /\ StartsWith(ExecutableOf(file), <<"/usr">>)
    /\ TokensOn("# Required-Start:\t{}")
         = {<<"$", "syslog">>, <<"$", "local_fs">>, <<"$", "remote_fs">>, <<"$", "time">>}

\* ------------------------------------------------------------------------
\* C12
\* ------------------------------------------------------------------------
\* the texts of the emitted lines that are in ts
LinesAmong(ts) == {Emitted[i].t : i \in {j \in 1..Len(Emitted) : Emitted[j].t \in ts}}

DefaultStartLines == {"# Default-Start:\t1", "# Default-Start:\t2 3 4 5"}

DefaultStopLines ==
    {"# Default-Stop:\t", "# Default-Stop:\t0 2 3 4 5 6", "# Default-Stop:\t\t0 1 6"}

\* the Default-Start line of a WantedBy value
StartRunlevels(wb) ==
    IF wb \in {<<"basic.target">>, <<"rescue.target">>}
    THEN "# Default-Start:\t1" ELSE "# Default-Start:\t2 3 4 5"

\* the Default-Stop line of a WantedBy value
StopRunlevels(wb) ==
    IF wb = <<"basic.target">> THEN "# Default-Stop:\t"
    ELSE IF wb = <<"rescue.target">> THEN "# Default-Stop:\t0 2 3 4 5 6"
    ELSE "# Default-Stop:\t\t0 1 6"

\* C12: a script whose header was emitted has one Default-Start and one
\* Default-Stop line, fixed by the WantedBy of [Install] alone: basic.target
\* gives start 1 and no stop level, rescue.target start 1 and stop
\* 0 2 3 4 5 6, every other value and an absent WantedBy start 2 3 4 5 and
\* stop 0 1 6.
C12_RunlevelsFromWantedBy ==
    (Generated /\ HasLine(Emitted, "### END INIT INFO"))
    => /\ LinesAmong(DefaultStartLines)
            = {StartRunlevels(Directive(file, "Install", "WantedBy"))}
       /\ LinesAmong(DefaultStopLines)
            = {StopRunlevels(Directive(file, "Install", "WantedBy"))}
       /\ Count(Emitted, StartRunlevels(Directive(file, "Install", "WantedBy"))) = 1
       /\ Count(Emitted, StopRunlevels(Directive(file, "Install", "WantedBy"))) = 1

\* a complete script for WantedBy=rescue.target
C12_Witness ==
    /\ pc = "done"
    /\ Directive(file, "Install", "WantedBy") = <<"rescue.target">>
    /\ HasLine(Emitted, "# Default-Start:\t1")
    /\ HasLine(Emitted, "# Default-Stop:\t0 2 3 4 5 6")

\* ------------------------------------------------------------------------
\* C13
\* ------------------------------------------------------------------------
\* the value of the specifier that text starts with, None when it starts
\* with none of the table
SpecifierAt(text, table) ==
    IF \E k \in 1..Len(table) : StartsWith(text, table[k][1])
    THEN table[CHOOSE k \in 1..Len(table) : StartsWith(text, table[k][1])][2]
    ELSE None

\* one simultaneous replacement of the specifiers of the table over text:
\* what a replacement puts in is not read again
RECURSIVE SinglePass(_, _)
SinglePass(text, table) ==
    IF text = <<>> THEN <<>>
    ELSE IF SpecifierAt(text, table) # None
         THEN SpecifierAt(text, table) \o SinglePass(From(text, 2), table)
         ELSE <<Head(text)>> \o SinglePass(Tail(text), table)

\* C13: after the load of a template unit on a new converter the ExecStart of
\* the document is the ExecStart of the file with the specifiers %i %I %p %P
\* %f %u %U replaced in one simultaneous pass by the values of the
\* converter's template context: text that a replacement introduced is not
\* substituted again.
C13_SinglePassSubstitution ==
    (loads = 1 /\ Loaded /\ converter.template_service
       /\ Directive(file, "Service", "ExecStart") # None)
    => converter.config["Service"]["execstart"]
         = Strip(SinglePass(Directive(file, "Service", "ExecStart"), SpecifierTable(converter)))

\* ------------------------------------------------------------------------
\* C14
\* ------------------------------------------------------------------------
\* the conditions that the unit sets, as indexes of ConditionKeys
PresentConditions(f) ==
    {i \in 1..4 : Truthy(Directive(f, "Unit", ConditionKeys[i]))}

\* the predicate of a condition: the path exists, the glob matches
\* something, the file is not empty, the directory is not empty
ConditionMet(i, world) ==
    IF i \in {1, 2} THEN world # "missing" ELSE world = "nonempty"

\* the guard lines of the start procedure
GuardLines ==
    {i \in LinesOf("start") : outfile[i].t \in {IfNotS, IfNoLs, IfNoDir}}

\* the working-directory change and the commands of the start procedure
ServiceLines ==
    {i \in LinesOf("start") :
        \/ outfile[i].t = CdOrBlock
        \/ ~IsControl(outfile[i].t) /\ outfile[i].t \notin Helpers \cup {"\t\tlog_end_msg 1"}}

\* the run ended at the exit 0 of a guard
StoppedAtGuard ==
    sh.exit = 0 /\ sh.ip \in LinesOf("start") /\ outfile[sh.ip].t = "\t\texit 0"

\* events of the trace that are the working-directory change or a command
ServiceEvents == {i \in 1..Len(sh.trace) : sh.trace[i].kind \in {"cd", "cmd"}}

\* C14: in a complete script every present condition has a guard and the
\* guards come before the working-directory change and before every command
\* of start; a run of start with a condition whose predicate is false ends
\* with exit 0 at a guard without having run a command, and a run with every
\* predicate true passes every guard.
C14_ConditionGuards ==
    /\ (pc = "done" /\ outfile # <<>>)
         => /\ Cardinality(GuardLines) = Cardinality(PresentConditions(file))
            /\ \A g \in GuardLines : \A c \in ServiceLines : g < c
    /\ Finished("start")
         => IF \E i \in PresentConditions(file) : ~ConditionMet(i, sh.world)
            THEN StoppedAtGuard /\ ServiceEvents = {}
            ELSE ~StoppedAtGuard

\* ------------------------------------------------------------------------
\* C15
\* ------------------------------------------------------------------------
\* the commands of ExecStartPre as they are written, without the blanks
\* around them
PreCmds(f) ==
    IF ~Truthy(Directive(f, "Service", "ExecStartPre")) THEN <<>>
    ELSE LET parts == Split(Directive(f, "Service", "ExecStartPre"), Semi)
         IN  [k \in 1..Len(parts) |-> Strip(parts[k])]

IsOptional(cmd) == StartsWith(cmd, <<"-">>)

\* the lines of start that call start_daemon with one command
StartDaemonLines == {i \in LinesOf("start") : outfile[i].t = "\tstart_daemon {}"}

\* the k-th of them
PreLine(k) ==
    CHOOSE i \in StartDaemonLines : Cardinality({j \in StartDaemonLines : j < i}) = k - 1

\* the line of the main command
MainLine ==
    CHOOSE i \in LinesOf("start") : outfile[i].t \in {StartExecForm(TRUE), StartAs(TRUE)}

\* positions of the trace where the k-th ExecStartPre command returned
\* nonzero
PreFailures(k) ==
    {e \in 1..Len(sh.trace) :
        sh.trace[e].kind = "cmd" /\ sh.trace[e].line = PreLine(k) /\ sh.trace[e].status # 0}

\* C15: in the script of a unit whose main command is /b and that is started
\* in the background, the k-th ExecStartPre command is emitted without its "-" marker; in a
\* run of start, after a command without the marker returned nonzero nothing
\* more is run and start exits 1, and after a command with the marker
\* returned nonzero the next ExecStartPre command, or the main command after
\* the last one, is run.
C15_ExecStartPreFailures ==
    (pc = "done" /\ outfile # <<>> /\ (sh.verb = "" \/ Finished("start"))
       /\ PreCmds(file) # <<>> /\ Directive(file, "Service", "ExecStart") = <<"/", "b">>)
    => \A k \in 1..Len(PreCmds(file)) :
         /\ Cardinality(StartDaemonLines) >= Len(PreCmds(file))
         /\ PreLine(k) < MainLine
         /\ outfile[PreLine(k)].a[1]
              = (IF IsOptional(PreCmds(file)[k]) THEN From(PreCmds(file)[k], 1)
                 ELSE PreCmds(file)[k])
         /\ ~IsOptional(outfile[PreLine(k)].a[1])
         /\ Finished("start")
              => \A e \in PreFailures(k) :
                   IF IsOptional(PreCmds(file)[k])
                   THEN /\ e < Len(sh.trace)
                        /\ sh.trace[e + 1].kind = "cmd"
                        /\ sh.trace[e + 1].line
                             = (IF k < Len(PreCmds(file)) THEN PreLine(k + 1) ELSE MainLine)
                   ELSE e = Len(sh.trace) /\ sh.exit = 1

\* a run of start in which the first command, with the marker, returned
\* nonzero and then the second, without it, returned nonzero
C15_Witness ==
    /\ Finished("start")
    /\ Len(PreCmds(file)) = 2
    /\ IsOptional(PreCmds(file)[1]) /\ ~IsOptional(PreCmds(file)[2])
    /\ PreFailures(1) # {} /\ PreFailures(2) # {}
    /\ sh.exit = 1

\* ------------------------------------------------------------------------
\* C16
\* ------------------------------------------------------------------------
\* TimeoutStopSec if it is set and not 0, otherwise TimeoutSec
ResolvedStopTimeout(f) ==
    LET tss == Directive(f, "Service", "TimeoutStopSec")
    IN  IF Truthy(tss) /\ tss # <<"0">> THEN tss ELSE Directive(f, "Service", "TimeoutSec")

\* the lines of body from the test of the expired window to its fi
ExpiryPath(body) ==
    LET b == FirstIndex(body, "\tif [ $TIMEOUT -eq 0 ]; then")
        rest == From(body, b)
        e == FirstIndex(rest, "\tfi")
    IN  IF b = 0 \/ e = 0 THEN <<>> ELSE SubSeq(rest, 1, e - 1)

\* C16: whenever generation has run for a unit with a positive resolved stop
\* timeout (TimeoutStopSec if set and not 0, else TimeoutSec), the stop
\* procedure was emitted with the loop that polls for the process to be
\* gone, and its expiry path is kill -15, sleep, kill -9 and the report of
\* the kill, in that order, without an exit.
C16_StopEscalation ==
    (Generated /\ PositiveTimeout(ResolvedStopTimeout(file)))
    => /\ HasLine(Emitted, "stop() {")
       /\ HasLine(Body(Emitted, "stop() {"), "\twhile [ $TIMEOUT -gt 0 ]; do")
       /\ HasLine(Body(Emitted, "stop() {"), "\t\tif ! /bin/kill -0 $TEMPPID 2>/dev/null; then")
       /\ [i \in 1..Len(ExpiryPath(Body(Emitted, "stop() {"))) |->
              ExpiryPath(Body(Emitted, "stop() {"))[i].t]
            = << "\t\tkill -15 $TEMPPID 2>/dev/null", "\t\tsleep 2",
                 "\t\tkill -9 $TEMPPID 2>/dev/null", "\t\techo \"$prog killed\"" >>

\* ------------------------------------------------------------------------
\* C17
\* ------------------------------------------------------------------------
\* position of a path in the search order
SearchRank(path) == CHOOSE n \in 1..Len(AllPaths) : AllPaths[n] = path

\* the service files of the disk with a name, that are not empty
Candidates(name) == {f \in disk : f.path.name = name /\ f.size > 0}

\* C17: the list that discovery returned has at most one entry per file
\* name, one for every name that a non-empty service file has, and its path
\* is the one that comes first in the search order (each search directory,
\* then its .wants, then its .requires, directories in priority order).
C17_EarliestEntryKept ==
    pc = "listed"
    => /\ \A i, j \in 1..Len(listing) : listing[i][1] = listing[j][1] => i = j
       /\ \A k \in 1..Len(ServiceNames) :
            Candidates(ServiceNames[k]) # {}
            => \E i \in 1..Len(listing) :
                 /\ listing[i][1] = ServiceNames[k]
                 /\ \A f \in Candidates(ServiceNames[k]) :
                      SearchRank(listing[i][2]) <= SearchRank(f.path)

====
